---- MODULE Spec2Model ----
(***************************************************************************)
(* The neural-network walkthrough notebook (src/unnamed/part_000) as a     *)
(* state machine: the session's names (net, params, input, out, output,   *)
(* target, criterion, loss, optimiser), the parameters' data and gradient *)
(* buffers, and one action per notebook statement.                        *)
(*                                                                         *)
(* Numbers.  A parameter tensor is represented by one element: every      *)
(* operation the notebook applies to a parameter (sub_, zero, gradient    *)
(* accumulation, the optimiser's add_) is elementwise.  Parameter data is *)
(* an integer count of 1/learning_rate.den (hundredths), gradients and    *)
(* network outputs are integers, so learning_rate * gradient is exact;    *)
(* floating-point rounding is not modelled.  The values produced by       *)
(* torch.randn, by the layers' random initialisation, by the forward pass *)
(* and by backpropagation are chosen from small sets.                     *)
(***************************************************************************)
EXTENDS Integers, Sequences, FiniteSets, TLC

VARIABLES pc, calls, last, net, data, grad, params, input, out, output,
          target, criterion, loss, optimiser, contrib, nfwd, freed, err,
          stdout, env, heap, cuda, cifar, workers, index_queue, data_queue,
          kernel

vars == <<pc, calls, last, net, data, grad, params, input, out, output,
          target, criterion, loss, optimiser, contrib, nfwd, freed, err,
          stdout, env, heap, cuda, cifar, workers, index_queue, data_queue,
          kernel>>

\* the names of the neural-network walkthrough
session == <<net, data, grad, params, input, out, output, target, criterion,
             loss, optimiser, contrib, nfwd, freed>>
\* the names and the memory of the tensor walkthrough
tensors == <<env, heap, cuda>>
\* the names of the CIFAR10 walkthrough, its loader processes and their queues
loading == <<cifar, workers, index_queue, data_queue>>

\* ------------------------------------------------------------- bounds
\* gradient elements produced by one backward call: 0..MaxGrad
MaxGrad == 1
\* initial parameter values (hundredths): 0..MaxInit
MaxInit == 1
\* offsets of the output rows a forward pass may produce
MaxOut == 1
\* forward passes in a free-order session
MaxFwd == 2
\* backward calls accumulated without a zero_grad in between
MaxAccum == 2
\* magnitude of parameter data (hundredths) in a free-order session
MaxData == 3
\* batch sizes and spatial sizes tried on Net.forward
MaxBatch == 2
MaxSide == 116
\* offsets of the values torch.rand, torch.randn and torch.Tensor may give
MaxRand == 1
\* largest element an in-place addition may produce in a free-order session
MaxVal == 3
\* number of training images (50000 in CIFAR10)
TrainSize == 17

\* Python's None, and a defined value
None == <<>>
Some(x) == <<x>>
Val(x) == x[1]

\* as Net, with conv2 declared for 3 input channels
NetMismatch ==
  << [name |-> "conv1", kind |-> "Conv2d", in |-> 1,  out |-> 6,   k |-> 5],
     [name |-> "conv2", kind |-> "Conv2d", in |-> 3,  out |-> 16,  k |-> 5],
     [name |-> "fc1",   kind |-> "Linear", in |-> 16 * 5 * 5, out |-> 120, k |-> 0],
     [name |-> "fc2",   kind |-> "Linear", in |-> 120, out |-> 84, k |-> 0],
     [name |-> "fc3",   kind |-> "Linear", in |-> 84,  out |-> 10, k |-> 0] >>

\* ------------------------------------------------------------ the net
\* Net.__init__: the five sub-layers, in definition order
Net ==
  << [name |-> "conv1", kind |-> "Conv2d", in |-> 1,  out |-> 6,   k |-> 5],
     [name |-> "conv2", kind |-> "Conv2d", in |-> 6,  out |-> 16,  k |-> 5],
     [name |-> "fc1",   kind |-> "Linear", in |-> 16 * 5 * 5, out |-> 120, k |-> 0],
     [name |-> "fc2",   kind |-> "Linear", in |-> 120, out |-> 84, k |-> 0],
     [name |-> "fc3",   kind |-> "Linear", in |-> 84,  out |-> 10, k |-> 0] >>

\* as LayerParameters, with the bias listed before the weight
LayerParametersBiasFirst(l) ==
  << [name |-> l.name, part |-> "bias", size |-> <<l.out>>],
     [name |-> l.name, part |-> "weight",
      size |-> IF l.kind = "Conv2d" THEN <<l.out, l.in, l.k, l.k>>
                                    ELSE <<l.out, l.in>>] >>

\* a layer's learnable tensors: its weight, then its bias
LayerParameters(l) ==
  << [name |-> l.name, part |-> "weight",
      size |-> IF l.kind = "Conv2d" THEN <<l.out, l.in, l.k, l.k>>
                                    ELSE <<l.out, l.in>>],
     [name |-> l.name, part |-> "bias", size |-> <<l.out>>] >>

RECURSIVE parameters(_)
\* net.parameters(): every layer's tensors, layers in definition order
parameters(layers) ==
  IF layers = <<>> THEN <<>>
  ELSE LayerParameters(Head(layers)) \o parameters(Tail(layers))

\* the parameters of the constructed net, by position in net.parameters()
ParamIdx == 1..Len(parameters(Net))

\* ------------------------------------------------------ Net.forward
Fail == [ok |-> FALSE, size |-> <<>>]
Ok(s) == [ok |-> TRUE, size |-> s]

\* as Conv2d, padded so that the spatial size is kept
Conv2dSame(l, x) ==
  IF ~x.ok THEN [ok |-> FALSE, size |-> <<>>]
  ELSE IF Len(x.size) # 4 \/ x.size[2] # l.in THEN [ok |-> FALSE, size |-> <<>>]
  ELSE [ok |-> TRUE, size |-> <<x.size[1], l.out, x.size[3], x.size[4]>>]

\* nn.Conv2d on nSamples x nChannels x Height x Width, stride 1, no padding
Conv2d(l, x) ==
  IF ~x.ok THEN Fail
  ELSE IF Len(x.size) # 4 \/ x.size[2] # l.in
          \/ x.size[3] < l.k \/ x.size[4] < l.k THEN Fail
  ELSE Ok(<<x.size[1], l.out, x.size[3] - l.k + 1, x.size[4] - l.k + 1>>)

\* F.relu keeps the shape
relu(x) == x

\* as max_pool2d, in ceil mode
max_pool2dCeil(x, k) ==
  IF ~x.ok THEN [ok |-> FALSE, size |-> <<>>]
  ELSE [ok |-> TRUE, size |-> <<x.size[1], x.size[2],
                                (x.size[3] + k - 1) \div k, (x.size[4] + k - 1) \div k>>]

\* F.max_pool2d with a k x k window (stride k, floor mode)
max_pool2d(x, k) ==
  IF ~x.ok THEN Fail
  ELSE IF x.size[3] \div k < 1 \/ x.size[4] \div k < 1 THEN Fail
  ELSE Ok(<<x.size[1], x.size[2], x.size[3] \div k, x.size[4] \div k>>)

RECURSIVE Product(_)
Product(s) == IF s = <<>> THEN 1 ELSE Head(s) * Product(Tail(s))

\* Net.num_flat_features: all dimensions except the batch dimension
num_flat_features(x) == Product(Tail(x.size))

\* x.view(-1, n): the first size is inferred from the element count
view(x, n) ==
  IF ~x.ok THEN Fail
  ELSE IF Product(x.size) % n # 0 THEN Fail
  ELSE Ok(<<Product(x.size) \div n, n>>)

\* nn.Linear: y = Wx + b on the last dimension
Linear(l, x) ==
  IF ~x.ok THEN Fail
  ELSE IF x.size[Len(x.size)] # l.in THEN Fail
  ELSE Ok(<<x.size[1], l.out>>)

\* the stages of Net.forward, each on the result of the one before
Stage1(layers, x) == max_pool2d(relu(Conv2d(layers[1], x)), 2)
Stage2(layers, x) == max_pool2d(relu(Conv2d(layers[2], Stage1(layers, x))), 2)
Flat(layers, x) ==
  LET y == Stage2(layers, x)
  IN  IF y.ok THEN view(y, num_flat_features(y)) ELSE Fail

\* Net.forward, on sizes
forward(layers, x) ==
  Linear(layers[5], relu(Linear(layers[4], relu(Linear(layers[3], Flat(layers, x))))))

\* ------------------------------------------------------------ values
IsWeight(i) == i % 2 = 1

\* one value per parameter: v for the weights and -v for the biases
Vectors(S) == { [i \in ParamIdx |-> IF IsWeight(i) THEN v ELSE -v] : v \in S }

InitVectors == Vectors(0..MaxInit)
GradVectors == Vectors(0..MaxGrad)

OutIdx == 1..Net[5].out
\* rows a forward pass may return; a = 1, b = 0 is the row 1..10
OutVectors == { [i \in OutIdx |-> a * i + b] : a \in 0..1, b \in 0..MaxOut }

\* the learning rate 0.01 as a fraction; parameter data counts 1/den
learning_rate == [num |-> 1, den |-> 100]

\* torch.arange(1, 11)
arange(a, b) == [i \in 1..(b - a) |-> a + i - 1]

RECURSIVE SumSq(_, _, _)
SumSq(o, t, n) == IF n = 0 THEN 0 ELSE (o[n] - t[n]) * (o[n] - t[n]) + SumSq(o, t, n - 1)

\* as MSELoss, summing instead of averaging
MSELossSum(o, t) == [num |-> SumSq(o, t, Len(t)), den |-> 1]

\* nn.MSELoss: the mean of the squared differences, as a fraction
MSELoss(o, t) == [num |-> SumSq(o, t, Len(t)), den |-> Len(t)]

\* ------------------------------------------- the tensor walkthrough
\* src/unnamed/part_001.  A name is bound to nothing, to a Torch tensor or to a
\* NumPy array; a tensor or array is a view (size, device) of a storage, and
\* heap holds the values of every storage some name still reaches.
Names == {"x", "y", "z", "result", "a", "b"}

\* no statement of the tensor walkthrough has run
TensorIdle ==
  /\ env = [n \in Names |-> None]
  /\ heap = [i \in {} |-> <<>>]
  /\ cuda = FALSE

\* ------------------------------------------- the CIFAR10 walkthrough
CifarNames == {"transform", "trainset", "trainloader", "testset", "testloader",
               "classes", "dataiter", "images", "labels"}
\* no statement of the CIFAR10 walkthrough has run: no loader process exists
LoadingIdle ==
  /\ cifar = [n \in CifarNames |-> None]
  /\ workers = <<>>
  /\ index_queue = <<>>
  /\ data_queue = <<>>

\* ------------------------------------------ the recorded executions
\* a code cell as the notebook file records it: the execution count of its
\* last run (0: never run), the names it reads that it does not bind itself
\* first, and the names it binds
Cell(count, reads, defines) == [count |-> count, reads |-> reads, defines |-> defines]

\* the code cells of the neural-network notebook, top to bottom
NeuralCells ==
  << Cell(1, {}, {"torch", "Variable", "nn", "F", "Net", "net"}),
     Cell(2, {"net"}, {"params"}),
     Cell(3, {"Variable", "torch", "net"}, {"input", "out"}),
     Cell(4, {"net", "out", "torch"}, {}),
     Cell(5, {"net", "input", "Variable", "torch", "nn"},
             {"output", "target", "criterion", "loss"}),
     Cell(6, {"loss"}, {}),
     Cell(7, {"net", "loss"}, {}),
     Cell(9, {"net"}, {"learning_rate", "f"}),
     Cell(10, {"net", "input", "criterion", "target"},
              {"optim", "optimiser", "output", "loss"}),
     Cell(0, {}, {}) >>

\* the code cells of the tensor notebook, top to bottom
TensorCells ==
  << Cell(1, {}, {"torch", "x"}),
     Cell(2, {"torch"}, {"x"}),
     Cell(3, {"x"}, {}),
     Cell(4, {"torch", "x"}, {"y"}),
     Cell(5, {"torch", "x", "y"}, {}),
     Cell(6, {"torch", "x", "y"}, {"result"}),
     Cell(7, {"x", "y"}, {}),
     Cell(8, {"x"}, {}),
     Cell(9, {"torch"}, {"x", "y", "z"}),
     Cell(10, {"torch"}, {"a"}),
     Cell(11, {"a"}, {"b"}),
     Cell(12, {"a", "b"}, {}),
     Cell(13, {"torch"}, {"np", "a", "b"}),
     Cell(16, {"torch"}, {"x", "y"}),
     Cell(0, {}, {}) >>

\* the CIFAR10 notebook's code cells if the second had last run after the third
CifarCellsReordered ==
  << Cell(1, {}, {"torch", "torchvision", "transforms"}),
     Cell(4, {"transforms", "torchvision", "torch"},
             {"transform", "trainset", "trainloader", "testset", "testloader",
              "classes"}),
     Cell(2, {"trainloader", "torchvision", "classes"},
             {"plt", "np", "imshow", "dataiter", "images", "labels"}),
     Cell(0, {}, {}) >>

\* the code cells of the CIFAR10 notebook, top to bottom
CifarCells ==
  << Cell(1, {}, {"torch", "torchvision", "transforms"}),
     Cell(2, {"transforms", "torchvision", "torch"},
             {"transform", "trainset", "trainloader", "testset", "testloader",
              "classes"}),
     Cell(4, {"trainloader", "torchvision", "classes"},
             {"plt", "np", "imshow", "dataiter", "images", "labels"}),
     Cell(0, {}, {}) >>

Cells == [neural |-> NeuralCells, tensor |-> TensorCells, cifar |-> CifarCells]

\* no kernel has executed anything
KernelIdle ==
  kernel = [nb \in DOMAIN Cells |->
              [count |-> 0, defined |-> {}, undefined |-> {}, ran |-> <<>>]]

\* ------------------------------------------------- library operations
\* Each is the effect of one notebook statement on the session, without
\* the statement's position (pc) and the call log (calls).

\* the positions of net.parameters(), in iteration order
ParamSeq(layers) == [i \in 1..Len(parameters(layers)) |-> i]

\* optim.SGD(net.parameters(), lr=0.01)
SGD(ps, lr) == [params |-> ps, lr |-> lr]

\* lr * g in hundredths
Scaled(lr, g) == (lr.num * g * 100) \div lr.den

\* as zero_grad, zeroing the weights' buffers only
zero_gradWeights(gr) ==
  [i \in DOMAIN gr |-> IF gr[i] = None \/ i % 2 = 0 THEN gr[i] ELSE Some(0)]

\* zero_grad: a gradient buffer that exists is zeroed, a missing one (None) is left
zero_grad(gr) == [i \in DOMAIN gr |-> IF gr[i] = None THEN None ELSE Some(0)]

\* as accumulate, overwriting the buffer
accumulateOverwrite(gr, g) == [i \in DOMAIN gr |-> Some(g[i])]

\* backward accumulates this call's gradient g into the .grad buffers
accumulate(gr, g) ==
  [i \in DOMAIN gr |-> IF gr[i] = None THEN Some(g[i]) ELSE Some(Val(gr[i]) + g[i])]

RECURSIVE add_loop(_, _, _)
\* as sub_loop, with add_ for sub_
add_loop(ps, d, gr) ==
  IF ps = <<>> THEN [data |-> d, err |-> None]
  ELSE IF gr[Head(ps)] = None THEN [data |-> d, err |-> Some("AttributeError")]
  ELSE add_loop(Tail(ps),
                [d EXCEPT ![Head(ps)] = @ + Scaled(learning_rate, Val(gr[Head(ps)]))],
                gr)

RECURSIVE sub_loop(_, _, _)
\* for f in net.parameters(): f.data.sub_(f.grad.data * learning_rate)
\* f.grad.data raises AttributeError when f.grad is None, which ends the loop
sub_loop(ps, d, gr) ==
  IF ps = <<>> THEN [data |-> d, err |-> None]
  ELSE IF gr[Head(ps)] = None THEN [data |-> d, err |-> Some("AttributeError")]
  ELSE sub_loop(Tail(ps),
                [d EXCEPT ![Head(ps)] = @ - Scaled(learning_rate, Val(gr[Head(ps)]))],
                gr)

RECURSIVE step(_, _, _, _)
\* optimiser.step(): plain SGD, parameters without a gradient are skipped
step(ps, lr, d, gr) ==
  IF ps = <<>> THEN d
  ELSE IF gr[Head(ps)] = None THEN step(Tail(ps), lr, d, gr)
  ELSE step(Tail(ps), lr,
            [d EXCEPT ![Head(ps)] = @ - Scaled(lr, Val(gr[Head(ps)]))], gr)

\* net = Net(): the layers, randomly initialised parameters, no gradient buffers
NewNet ==
  /\ net = None
  /\ net' = Net
  /\ \E d \in InitVectors : data' = d
  /\ grad' = [i \in ParamIdx |-> None]
  /\ last' = "Net"
  /\ err' = None
  /\ UNCHANGED <<params, input, out, output, target, criterion, loss, optimiser,
                 contrib, nfwd, freed>>

\* params = list(net.parameters())
ListParameters ==
  /\ net # None
  /\ params' = Some(parameters(net))
  /\ last' = "parameters"
  /\ err' = None
  /\ UNCHANGED <<net, data, grad, input, out, output, target, criterion, loss,
                 optimiser, contrib, nfwd, freed>>

\* input = Variable(torch.randn(n, c, h, w))
RandnInput(n, c, h, w) ==
  /\ input' = Some([size |-> <<n, c, h, w>>])
  /\ last' = "randn"
  /\ err' = None
  /\ UNCHANGED <<net, data, grad, params, out, output, target, criterion, loss,
                 optimiser, contrib, nfwd, freed>>

\* net(input): a new output with its own graph, or a size mismatch
Call(r) ==
  /\ net # None /\ input # None
  /\ LET y == forward(net, Ok(Val(input).size))
     IN  IF y.ok
         THEN /\ \E v \in OutVectors :
                   r' = Some([size |-> y.size, val |-> v, fwd |-> nfwd + 1])
              /\ nfwd' = nfwd + 1
              /\ err' = None
         ELSE /\ err' = Some("size mismatch")
              /\ UNCHANGED <<r, nfwd>>
  /\ last' = "forward"

\* out = net(input)
ForwardOut ==
  /\ Call(out)
  /\ UNCHANGED <<net, data, grad, params, input, output, target, criterion, loss,
                 optimiser, contrib, freed>>

\* output = net(input)
ForwardOutput ==
  /\ Call(output)
  /\ UNCHANGED <<net, data, grad, params, input, out, target, criterion, loss,
                 optimiser, contrib, freed>>

\* net.zero_grad()
NetZeroGrad ==
  /\ net # None
  /\ grad' = zero_grad(grad)
  /\ contrib' = <<>>
  /\ last' = "net.zero_grad"
  /\ err' = None
  /\ UNCHANGED <<net, data, params, input, out, output, target, criterion, loss,
                 optimiser, nfwd, freed>>

\* as OptimiserZeroGrad, leaving the buffers as they are
OptimiserZeroGradSkipped ==
  /\ optimiser # None
  /\ last' = "optimiser.zero_grad"
  /\ err' = None
  /\ UNCHANGED <<net, data, grad, params, input, out, output, target, criterion, loss,
                 optimiser, contrib, nfwd, freed>>

\* optimiser.zero_grad(): the same buffers, reached through the optimiser
OptimiserZeroGrad ==
  /\ optimiser # None
  /\ grad' = zero_grad(grad)
  /\ contrib' = <<>>
  /\ last' = "optimiser.zero_grad"
  /\ err' = None
  /\ UNCHANGED <<net, data, params, input, out, output, target, criterion, loss,
                 optimiser, nfwd, freed>>

\* backward from the graph of forward pass f: the gradient is accumulated and
\* the graph's buffers are freed; a second backward through it raises
Backprop(f) ==
  /\ IF f \in freed
     THEN /\ err' = Some("RuntimeError")
          /\ UNCHANGED <<grad, contrib, freed>>
     ELSE /\ \E g \in GradVectors :
               /\ grad' = accumulate(grad, g)
               /\ contrib' = Append(contrib, [src |-> f, g |-> g])
          /\ freed' = freed \cup {f}
          /\ err' = None
  /\ last' = "backward"
  /\ UNCHANGED <<net, data, params, input, out, output, target, criterion, loss,
                 optimiser, nfwd>>

\* out.backward(torch.randn(1, 10))
BackwardOut == out # None /\ Backprop(Val(out).fwd)

\* loss.backward()
BackwardLoss == loss # None /\ Backprop(Val(loss).fwd)

\* target = Variable(torch.arange(1, 11))
MakeTarget ==
  /\ target' = Some(arange(1, 11))
  /\ last' = "arange"
  /\ err' = None
  /\ UNCHANGED <<net, data, grad, params, input, out, output, criterion, loss,
                 optimiser, contrib, nfwd, freed>>

\* criterion = nn.MSELoss()
MakeCriterion ==
  /\ criterion' = Some("MSELoss")
  /\ last' = "MSELoss"
  /\ err' = None
  /\ UNCHANGED <<net, data, grad, params, input, out, output, target, loss,
                 optimiser, contrib, nfwd, freed>>

\* loss = criterion(output, target)
ComputeLoss ==
  /\ criterion # None /\ output # None /\ target # None
  /\ IF Product(Val(output).size) = Len(Val(target))
     THEN /\ loss' = Some(MSELoss(Val(output).val, Val(target))
                          @@ [fwd |-> Val(output).fwd])
          /\ err' = None
     ELSE /\ err' = Some("size mismatch")
          /\ UNCHANGED loss
  /\ last' = "loss"
  /\ UNCHANGED <<net, data, grad, params, input, out, output, target, criterion,
                 optimiser, contrib, nfwd, freed>>

\* the manual update cell
ManualUpdate ==
  /\ net # None
  /\ LET r == sub_loop(ParamSeq(net), data, grad)
     IN  data' = r.data /\ err' = r.err
  /\ last' = "manual update"
  /\ UNCHANGED <<net, grad, params, input, out, output, target, criterion, loss,
                 optimiser, contrib, nfwd, freed>>

\* optimiser = optim.SGD(net.parameters(), lr=0.01)
MakeOptimiser ==
  /\ net # None
  /\ optimiser' = Some(SGD(ParamSeq(net), [num |-> 1, den |-> 100]))
  /\ last' = "SGD"
  /\ err' = None
  /\ UNCHANGED <<net, data, grad, params, input, out, output, target, criterion,
                 loss, contrib, nfwd, freed>>

\* optimiser.step()
OptimiserStep ==
  /\ optimiser # None
  /\ data' = step(Val(optimiser).params, Val(optimiser).lr, data, grad)
  /\ last' = "step"
  /\ err' = None
  /\ UNCHANGED <<net, grad, params, input, out, output, target, criterion, loss,
                 optimiser, contrib, nfwd, freed>>

\* ------------------------------------------------- the autograd graph
\* the operations of Net.forward, in the order they are applied
ForwardOps ==
  << [op |-> "conv2d", layer |-> 1], [op |-> "relu", layer |-> 0],
     [op |-> "max_pool2d", layer |-> 0],
     [op |-> "conv2d", layer |-> 2], [op |-> "relu", layer |-> 0],
     [op |-> "max_pool2d", layer |-> 0],
     [op |-> "view", layer |-> 0],
     [op |-> "linear", layer |-> 3], [op |-> "relu", layer |-> 0],
     [op |-> "linear", layer |-> 4], [op |-> "relu", layer |-> 0],
     [op |-> "linear", layer |-> 5] >>

\* a graph node: the name it prints as and its next_functions, in order
Node(name, next) == [name |-> name, next |-> next]

\* the leaf of a parameter
AccumulateGrad(layer, part) == Node("AccumulateGrad", <<>>)

\* the node of one forward operation, given the node of its input.  A linear
\* layer on a 2-D input is addmm(bias, input, weight.t()): its node's
\* next_functions are the expanded bias, the input, the transposed weight.
OpNode(o, prev) ==
  CASE o.op = "linear" ->
         Node("AddmmBackward",
              << Node("ExpandBackward", <<AccumulateGrad(o.layer, "bias")>>),
                 prev,
                 Node("TBackward", <<AccumulateGrad(o.layer, "weight")>>) >>)
    [] o.op = "relu" -> Node("ThresholdBackward", <<prev>>)
    [] o.op = "max_pool2d" -> Node("MaxPool2dBackward", <<prev>>)
    [] o.op = "view" -> Node("ViewBackward", <<prev>>)
    [] o.op = "conv2d" ->
         Node("ConvNdBackward",
              << prev, AccumulateGrad(o.layer, "weight"),
                 AccumulateGrad(o.layer, "bias") >>)

RECURSIVE GraphOf(_)
\* the grad_fn of the result of applying ops to the input, which has none
GraphOf(ops) ==
  IF ops = <<>> THEN Node("None", <<>>)
  ELSE OpNode(ops[Len(ops)], GraphOf(SubSeq(ops, 1, Len(ops) - 1)))

\* loss.grad_fn: the MSELoss node on the output of Net.forward
grad_fn(l) == Node("MseLossBackward", <<GraphOf(ForwardOps)>>)

\* node.next_functions[0][0]
next_function(node) == node.next[1]

\* print(loss.grad_fn), then its first next function, then that one's
PrintGradFn ==
  /\ loss # None
  /\ stdout' = << grad_fn(Val(loss)).name,
                  next_function(grad_fn(Val(loss))).name,
                  next_function(next_function(grad_fn(Val(loss)))).name >>
  /\ last' = "print grad_fn"
  /\ err' = None
  /\ UNCHANGED <<net, data, grad, params, input, out, output, target, criterion,
                 loss, optimiser, contrib, nfwd, freed>>

\* ------------------------------------------------ free-order session
\* The objects of the walkthrough after their construction; their
\* operations are called in any order.  The first forward pass into out and
\* its backward call with a random gradient are run in notebook order only.
\* A statement that would raise NameError is not enabled.
Init ==
  /\ pc = 0
  /\ calls = <<>>
  /\ last = "init"
  /\ net = Net
  /\ data \in InitVectors
  /\ grad = [i \in ParamIdx |-> None]
  /\ params = Some(parameters(Net))
  /\ input = Some([size |-> <<1, 1, 32, 32>>])
  /\ out = None
  /\ output = None
  /\ target = Some(arange(1, 11))
  /\ criterion = Some("MSELoss")
  /\ loss = None
  /\ optimiser = Some(SGD(ParamSeq(Net), [num |-> 1, den |-> 100]))
  /\ contrib = <<>>
  /\ nfwd = 0
  /\ freed = {}
  /\ err = None
  /\ stdout = <<>>
  /\ TensorIdle
  /\ LoadingIdle
  /\ KernelIdle

Free == pc = 0 /\ UNCHANGED <<pc, calls, stdout, tensors, loading, kernel>>
InRange(d) == \A i \in DOMAIN d : d[i] >= -MaxData /\ d[i] <= MaxData

ApiForwardOutput == Free /\ nfwd < MaxFwd /\ ForwardOutput
ApiNetZeroGrad == Free /\ NetZeroGrad
ApiOptimiserZeroGrad == Free /\ OptimiserZeroGrad
ApiBackwardLoss == Free /\ Len(contrib) < MaxAccum /\ BackwardLoss
ApiComputeLoss == Free /\ ComputeLoss
ApiManualUpdate == Free /\ ManualUpdate /\ InRange(data')
ApiOptimiserStep == Free /\ OptimiserStep /\ InRange(data')

Next ==
  \/ ApiForwardOutput
  \/ ApiNetZeroGrad
  \/ ApiOptimiserZeroGrad
  \/ ApiBackwardLoss
  \/ ApiComputeLoss
  \/ ApiManualUpdate
  \/ ApiOptimiserStep

Spec == Init /\ [][Next]_vars

\* ------------------------------------------------- Net.forward on sizes
\* The constructed net applied to inputs of size N x 1 x H x W.
InitForward ==
  /\ pc = 0
  /\ calls = <<>>
  /\ last = "randn"
  /\ net = Net
  /\ data \in InitVectors
  /\ grad = [i \in ParamIdx |-> None]
  /\ params = None
  /\ \E n \in 1..MaxBatch, h \in 1..MaxSide, w \in 1..MaxSide :
       input = Some([size |-> <<n, 1, h, w>>])
  /\ out = None
  /\ output = None
  /\ target = None
  /\ criterion = None
  /\ loss = None
  /\ optimiser = None
  /\ contrib = <<>>
  /\ nfwd = 0
  /\ freed = {}
  /\ err = None
  /\ stdout = <<>>
  /\ TensorIdle
  /\ LoadingIdle
  /\ KernelIdle

SpecForward == InitForward /\ [][ApiForwardOutput]_vars

\* ------------------------------------------------ the notebook, in order
\* as Notebook, without the manual update cell
NotebookNoManualUpdate ==
  << [cell |-> 1,  op |-> "net = Net()"],
     [cell |-> 2,  op |-> "params = list(net.parameters())"],
     [cell |-> 3,  op |-> "input = randn(1, 1, 32, 32)"],
     [cell |-> 3,  op |-> "out = net(input)"],
     [cell |-> 4,  op |-> "net.zero_grad()"],
     [cell |-> 4,  op |-> "out.backward(randn(1, 10))"],
     [cell |-> 5,  op |-> "output = net(input)"],
     [cell |-> 5,  op |-> "target = arange(1, 11)"],
     [cell |-> 5,  op |-> "criterion = MSELoss()"],
     [cell |-> 5,  op |-> "loss = criterion(output, target)"],
     [cell |-> 6,  op |-> "print grad_fn"],
     [cell |-> 7,  op |-> "net.zero_grad()"],
     [cell |-> 7,  op |-> "loss.backward()"],
     [cell |-> 10, op |-> "optimiser = SGD(net.parameters(), lr=0.01)"],
     [cell |-> 10, op |-> "optimiser.zero_grad()"],
     [cell |-> 10, op |-> "output = net(input)"],
     [cell |-> 10, op |-> "loss = criterion(output, target)"],
     [cell |-> 10, op |-> "loss.backward()"],
     [cell |-> 10, op |-> "optimiser.step()"] >>

\* The statements of the walkthrough that act on the session, with the
\* execution count of their cell.
Notebook ==
  << [cell |-> 1,  op |-> "net = Net()"],
     [cell |-> 2,  op |-> "params = list(net.parameters())"],
     [cell |-> 3,  op |-> "input = randn(1, 1, 32, 32)"],
     [cell |-> 3,  op |-> "out = net(input)"],
     [cell |-> 4,  op |-> "net.zero_grad()"],
     [cell |-> 4,  op |-> "out.backward(randn(1, 10))"],
     [cell |-> 5,  op |-> "output = net(input)"],
     [cell |-> 5,  op |-> "target = arange(1, 11)"],
     [cell |-> 5,  op |-> "criterion = MSELoss()"],
     [cell |-> 5,  op |-> "loss = criterion(output, target)"],
     [cell |-> 6,  op |-> "print grad_fn"],
     [cell |-> 7,  op |-> "net.zero_grad()"],
     [cell |-> 7,  op |-> "loss.backward()"],
     [cell |-> 9,  op |-> "manual update"],
     [cell |-> 10, op |-> "optimiser = SGD(net.parameters(), lr=0.01)"],
     [cell |-> 10, op |-> "optimiser.zero_grad()"],
     [cell |-> 10, op |-> "output = net(input)"],
     [cell |-> 10, op |-> "loss = criterion(output, target)"],
     [cell |-> 10, op |-> "loss.backward()"],
     [cell |-> 10, op |-> "optimiser.step()"] >>

\* nothing is defined before the first cell runs
InitNotebook ==
  /\ pc = 1
  /\ calls = <<>>
  /\ last = "init"
  /\ net = None
  /\ data = None
  /\ grad = None
  /\ params = None
  /\ input = None
  /\ out = None
  /\ output = None
  /\ target = None
  /\ criterion = None
  /\ loss = None
  /\ optimiser = None
  /\ contrib = <<>>
  /\ nfwd = 0
  /\ freed = {}
  /\ err = None
  /\ stdout = <<>>
  /\ TensorIdle
  /\ LoadingIdle
  /\ KernelIdle

\* the statement at pc is op; it runs, is logged, and pc moves on
At(op) == pc \in DOMAIN Notebook /\ Notebook[pc].op = op
Advance ==
  /\ pc' = pc + 1
  /\ calls' = Append(calls, last')
  /\ stdout' = <<>>
  /\ UNCHANGED <<tensors, loading, kernel>>

NbNewNet == At("net = Net()") /\ NewNet /\ Advance
NbListParameters == At("params = list(net.parameters())") /\ ListParameters /\ Advance
NbRandnInput == At("input = randn(1, 1, 32, 32)") /\ RandnInput(1, 1, 32, 32) /\ Advance
NbForwardOut == At("out = net(input)") /\ ForwardOut /\ Advance
NbNetZeroGrad == At("net.zero_grad()") /\ NetZeroGrad /\ Advance
NbBackwardOut == At("out.backward(randn(1, 10))") /\ BackwardOut /\ Advance
NbForwardOutput == At("output = net(input)") /\ ForwardOutput /\ Advance
NbMakeTarget == At("target = arange(1, 11)") /\ MakeTarget /\ Advance
NbMakeCriterion == At("criterion = MSELoss()") /\ MakeCriterion /\ Advance
NbComputeLoss == At("loss = criterion(output, target)") /\ ComputeLoss /\ Advance
NbBackwardLoss == At("loss.backward()") /\ BackwardLoss /\ Advance
NbManualUpdate == At("manual update") /\ ManualUpdate /\ Advance
NbMakeOptimiser == At("optimiser = SGD(net.parameters(), lr=0.01)") /\ MakeOptimiser /\ Advance
NbOptimiserZeroGrad == At("optimiser.zero_grad()") /\ OptimiserZeroGrad /\ Advance
NbOptimiserStep == At("optimiser.step()") /\ OptimiserStep /\ Advance
NbPrintGradFn ==
  /\ At("print grad_fn")
  /\ PrintGradFn
  /\ pc' = pc + 1
  /\ calls' = Append(calls, last')
  /\ UNCHANGED <<tensors, loading, kernel>>

NextNotebook ==
  \/ NbNewNet
  \/ NbListParameters
  \/ NbRandnInput
  \/ NbForwardOut
  \/ NbNetZeroGrad
  \/ NbBackwardOut
  \/ NbForwardOutput
  \/ NbMakeTarget
  \/ NbMakeCriterion
  \/ NbComputeLoss
  \/ NbBackwardLoss
  \/ NbManualUpdate
  \/ NbMakeOptimiser
  \/ NbOptimiserZeroGrad
  \/ NbOptimiserStep
  \/ NbPrintGradFn

SpecNotebook == InitNotebook /\ [][NextNotebook]_vars

\* the notebook has run to its end
Done == pc = Len(Notebook) + 1

\* -------------------------------- the tensor walkthrough's operations
numel(size) == Product(size)

Tensor(store, size, device) ==
  [kind |-> "tensor", store |-> store, size |-> size, device |-> device]
ndarray(store, size) ==
  [kind |-> "ndarray", store |-> store, size |-> size, device |-> "cpu"]

\* n values the program does not determine: random, or uninitialised memory
Values(n) == { [i \in 1..n |-> r + (i % 2)] : r \in 0..MaxRand }

\* the smallest storage id not in use
NewId(h) ==
  CHOOSE i \in 1..(Cardinality(DOMAIN h) + 1) :
    i \notin DOMAIN h /\ \A j \in 1..(i - 1) : j \in DOMAIN h

Store(h, id, v) == [i \in DOMAIN h \cup {id} |-> IF i = id THEN v ELSE h[i]]

\* a storage that no name reaches any more is freed
Reachable(e) == { Val(e[n]).store : n \in {m \in Names : e[m] # None} }
Collect(h, e) == [i \in DOMAIN h \cap Reachable(e) |-> h[i]]

Bind(e, n, r) == [e EXCEPT ![n] = Some(r)]

\* the elements a tensor or array shows
Read(h, r) == h[r.store]

\* whether an elementwise operation on two tensors goes through: always on
\* equal sizes, never across devices or on different element counts; on equal
\* element counts with different sizes the source does not tell, and both
\* outcomes are kept
Outcomes(xr, yr) ==
  IF xr.device # yr.device THEN {FALSE}
  ELSE IF xr.size = yr.size THEN {TRUE}
  ELSE IF numel(xr.size) = numel(yr.size) THEN {TRUE, FALSE}
  ELSE {FALSE}

Sum(h, xr, yr) == [i \in 1..numel(xr.size) |-> Read(h, xr)[i] + Read(h, yr)[i]]

\* a statement that raises leaves names and memory as they were
Raise(e) ==
  /\ err' = Some(e)
  /\ stdout' = <<>>
  /\ UNCHANGED <<env, heap>>

\* n = a new tensor or array of its own storage, holding v
New(n, r, v) ==
  LET id == NewId(heap)
      e == Bind(env, n, [r EXCEPT !.store = id])
  IN  /\ env' = e
      /\ heap' = Collect(Store(heap, id, v), e)
      /\ stdout' = <<>>
      /\ err' = None

\* x = torch.Tensor(5, 3): uninitialised
TensorUninit(n) ==
  /\ \E v \in Values(numel(<<5, 3>>)) : New(n, Tensor(0, <<5, 3>>, "cpu"), v)
  /\ last' = "torch.Tensor"

\* x = torch.rand(5, 3), x = torch.randn(4, 4)
Rand(n, size) ==
  /\ \E v \in Values(numel(size)) : New(n, Tensor(0, size, "cpu"), v)
  /\ last' = "torch.rand"

\* a = torch.ones(5)
Ones ==
  /\ New("a", Tensor(0, <<5>>, "cpu"), [i \in 1..5 |-> 1])
  /\ last' = "torch.ones"

\* a = np.ones(5)
NpOnes ==
  /\ New("a", ndarray(0, <<5>>), [i \in 1..5 |-> 1])
  /\ last' = "np.ones"

\* print(x.size())
Size ==
  /\ env["x"] # None
  /\ stdout' = <<Val(env["x"]).size>>
  /\ err' = None
  /\ last' = "x.size()"
  /\ UNCHANGED <<env, heap>>

\* x + y if the sum were accumulated into x
AddExprInPlace(tag) ==
  /\ env["x"] # None /\ env["y"] # None
  /\ LET xr == Val(env["x"])
         yr == Val(env["y"])
     IN  \E ok \in Outcomes(xr, yr) :
           IF ok THEN /\ stdout' = <<Sum(heap, xr, yr)>>
                      /\ heap' = [heap EXCEPT ![xr.store] = Sum(heap, xr, yr)]
                      /\ err' = None
                      /\ UNCHANGED env
           ELSE Raise("RuntimeError")
  /\ last' = tag

\* x + y, torch.add(x, y): the sum is a new tensor, printed and dropped
AddExpr(tag) ==
  /\ env["x"] # None /\ env["y"] # None
  /\ LET xr == Val(env["x"])
         yr == Val(env["y"])
     IN  \E ok \in Outcomes(xr, yr) :
           IF ok THEN /\ stdout' = <<Sum(heap, xr, yr)>>
                      /\ err' = None
                      /\ UNCHANGED <<env, heap>>
           ELSE Raise("RuntimeError")
  /\ last' = tag

\* torch.add(x, y, out=result): the sum is written into result
AddOut ==
  /\ env["x"] # None /\ env["y"] # None /\ env["result"] # None
  /\ LET xr == Val(env["x"])
         yr == Val(env["y"])
         rr == Val(env["result"])
     IN  \E ok \in Outcomes(xr, yr) :
           IF ok /\ rr.device = xr.device
           THEN /\ heap' = [heap EXCEPT ![rr.store] = Sum(heap, xr, yr)]
                /\ env' = Bind(env, "result", [rr EXCEPT !.size = xr.size])
                /\ stdout' = <<>>
                /\ err' = None
           ELSE Raise("RuntimeError")
  /\ last' = "torch.add(out=result)"

\* y.add_(x): x is added to y in place
AddInPlace ==
  /\ env["x"] # None /\ env["y"] # None
  /\ LET xr == Val(env["x"])
         yr == Val(env["y"])
     IN  \E ok \in Outcomes(yr, xr) :
           IF ok THEN /\ heap' = [heap EXCEPT ![yr.store] = Sum(heap, yr, xr)]
                      /\ stdout' = <<>>
                      /\ err' = None
                      /\ UNCHANGED env
           ELSE Raise("RuntimeError")
  /\ last' = "y.add_(x)"

\* print(x[:, 1]): the second column
Index ==
  /\ env["x"] # None
  /\ LET xr == Val(env["x"])
     IN  IF Len(xr.size) = 2 /\ xr.size[2] >= 2
         THEN /\ stdout' = << [r \in 1..xr.size[1] |->
                                 Read(heap, xr)[(r - 1) * xr.size[2] + 2]] >>
              /\ err' = None
              /\ UNCHANGED <<env, heap>>
         ELSE Raise("IndexError")
  /\ last' = "x[:, 1]"

\* y = x.view(16), z = x.view(-1, 8): another size on the same storage
View(n, cols) ==
  /\ env["x"] # None
  /\ LET xr == Val(env["x"])
     IN  IF numel(xr.size) % cols = 0
         THEN LET size == IF numel(xr.size) = cols THEN <<cols>>
                          ELSE <<numel(xr.size) \div cols, cols>>
                  e == Bind(env, n, Tensor(xr.store, size, xr.device))
              IN  /\ env' = e
                  /\ heap' = Collect(heap, e)
                  /\ stdout' = <<>>
                  /\ err' = None
         ELSE Raise("RuntimeError")
  /\ last' = "x.view"

\* b = a.numpy() if it copied the elements into an array of its own
NumpyCopy ==
  /\ env["a"] # None
  /\ LET ar == Val(env["a"])
     IN  IF ar.kind = "tensor"
         THEN New("b", ndarray(0, ar.size), Read(heap, ar))
         ELSE Raise("AttributeError")
  /\ last' = "a.numpy()"

\* b = a.numpy(): an array on the tensor's storage
Numpy ==
  /\ env["a"] # None
  /\ LET ar == Val(env["a"])
     IN  IF ar.kind = "tensor"
         THEN LET e == Bind(env, "b", ndarray(ar.store, ar.size))
              IN  /\ env' = e
                  /\ heap' = Collect(heap, e)
                  /\ stdout' = <<>>
                  /\ err' = None
         ELSE Raise("AttributeError")
  /\ last' = "a.numpy()"

\* b = torch.from_numpy(a): a tensor on the array's storage
FromNumpy ==
  /\ env["a"] # None
  /\ LET ar == Val(env["a"])
     IN  IF ar.kind = "ndarray"
         THEN LET e == Bind(env, "b", Tensor(ar.store, ar.size, "cpu"))
              IN  /\ env' = e
                  /\ heap' = Collect(heap, e)
                  /\ stdout' = <<>>
                  /\ err' = None
         ELSE Raise("RuntimeError")
  /\ last' = "torch.from_numpy(a)"

\* a.add_(1): 1 is added in place through the tensor.  The notebook calls it
\* on a; on b it is the same call on the other object of the pair.
TensorAddOne(n) ==
  /\ env[n] # None
  /\ LET r == Val(env[n])
     IN  IF r.kind = "tensor"
         THEN /\ heap' = [heap EXCEPT ![r.store] = [i \in DOMAIN @ |-> @[i] + 1]]
              /\ stdout' = <<>>
              /\ err' = None
              /\ UNCHANGED env
         ELSE Raise("AttributeError")
  /\ last' = "add_(1)"

\* np.add(a, 1, out=a): 1 is added in place through the array
ArrayAddOne(n) ==
  /\ env[n] # None
  /\ LET r == Val(env[n])
     IN  IF r.kind = "ndarray"
         THEN /\ heap' = [heap EXCEPT ![r.store] = [i \in DOMAIN @ |-> @[i] + 1]]
              /\ stdout' = <<>>
              /\ err' = None
              /\ UNCHANGED env
         ELSE Raise("TypeError")
  /\ last' = "np.add(out=)"

\* n.cuda(): a copy on the GPU, or the tensor itself if it is there already
ToCuda(e, h, n) ==
  LET r == Val(e[n])
      id == NewId(h)
  IN  IF r.device = "cuda" THEN [env |-> e, heap |-> h]
      ELSE [env |-> Bind(e, n, Tensor(id, r.size, "cuda")),
            heap |-> Store(h, id, h[r.store])]

\* x = x.cuda(); y = y.cuda(); print(x + y) without the check around them:
\* on a machine without a GPU x.cuda() raises
CudaBlockUnchecked ==
  /\ env["x"] # None /\ env["y"] # None
  /\ IF cuda
     THEN LET m1 == ToCuda(env, heap, "x")
              m2 == ToCuda(m1.env, m1.heap, "y")
              xr == Val(m2.env["x"])
              yr == Val(m2.env["y"])
          IN  /\ env' = m2.env
              /\ heap' = Collect(m2.heap, m2.env)
              /\ \E ok \in Outcomes(xr, yr) :
                   IF ok THEN stdout' = <<Sum(m2.heap, xr, yr)>> /\ err' = None
                   ELSE stdout' = <<>> /\ err' = Some("RuntimeError")
     ELSE Raise("AssertionError")
  /\ last' = "if cuda"

\* if torch.cuda.is_available(): x = x.cuda(); y = y.cuda(); print(x + y)
CudaBlock ==
  /\ env["x"] # None /\ env["y"] # None
  /\ IF cuda
     THEN LET m1 == ToCuda(env, heap, "x")
              m2 == ToCuda(m1.env, m1.heap, "y")
              xr == Val(m2.env["x"])
              yr == Val(m2.env["y"])
          IN  /\ env' = m2.env
              /\ heap' = Collect(m2.heap, m2.env)
              /\ \E ok \in Outcomes(xr, yr) :
                   IF ok THEN stdout' = <<Sum(m2.heap, xr, yr)>> /\ err' = None
                   ELSE stdout' = <<>> /\ err' = Some("RuntimeError")
     ELSE /\ stdout' = <<>>
          /\ err' = None
          /\ UNCHANGED <<env, heap>>
  /\ last' = "if cuda"

\* ------------------------------- the tensor walkthrough, in any order
\* nothing of the neural-network walkthrough is defined
SessionIdle ==
  /\ net = None /\ data = None /\ grad = None /\ params = None
  /\ input = None /\ out = None /\ output = None /\ target = None
  /\ criterion = None /\ loss = None /\ optimiser = None
  /\ contrib = <<>> /\ nfwd = 0 /\ freed = {}

\* after import torch, on a machine with or without a GPU
InitTensor ==
  /\ pc = 0
  /\ calls = <<>>
  /\ last = "init"
  /\ err = None
  /\ stdout = <<>>
  /\ SessionIdle
  /\ env = [n \in Names |-> None]
  /\ heap = [i \in {} |-> <<>>]
  /\ cuda \in BOOLEAN
  /\ LoadingIdle
  /\ KernelIdle

Small(h) == \A i \in DOMAIN h : \A k \in DOMAIN h[i] : h[i][k] <= MaxVal

\* --------------------------------- the NumPy bridge, in any order
\* pc records how far the bridge has got: 0 nothing bound, 1 a bound,
\* 2 b converted from the a that is bound now
BFree == UNCHANGED <<calls, session, cuda, loading, kernel>>
Bound == pc' = 1
Converted == pc' = IF err' = None THEN 2 ELSE pc

BOnes == BFree /\ Ones /\ Bound
BNpOnes == BFree /\ NpOnes /\ Bound
BNumpy == BFree /\ Numpy /\ Converted
BFromNumpy == BFree /\ FromNumpy /\ Converted
BTensorAddOne ==
  BFree /\ (\E n \in {"a", "b"} : TensorAddOne(n)) /\ Small(heap') /\ UNCHANGED pc
BArrayAddOne ==
  BFree /\ (\E n \in {"a", "b"} : ArrayAddOne(n)) /\ Small(heap') /\ UNCHANGED pc

NextBridge ==
  \/ BOnes
  \/ BNpOnes
  \/ BNumpy
  \/ BFromNumpy
  \/ BTensorAddOne
  \/ BArrayAddOne

SpecBridge == InitTensor /\ [][NextBridge]_vars

\* ------------------------------ the tensor walkthrough, in notebook order
\* the statements of the tensor notebook's cells, by execution count; a print
\* of a bare name is left out
TensorNotebook ==
  << [cell |-> 1, op |-> "x = torch.Tensor"],
     [cell |-> 2, op |-> "x = torch.rand"],
     [cell |-> 3, op |-> "x.size()"],
     [cell |-> 4, op |-> "y = torch.rand"],
     [cell |-> 4, op |-> "x + y"],
     [cell |-> 5, op |-> "torch.add(x, y)"],
     [cell |-> 6, op |-> "result = torch.Tensor"],
     [cell |-> 6, op |-> "torch.add(out=result)"],
     [cell |-> 7, op |-> "y.add_(x)"],
     [cell |-> 8, op |-> "x[:, 1]"],
     [cell |-> 9, op |-> "x = torch.randn"],
     [cell |-> 9, op |-> "y = x.view"],
     [cell |-> 9, op |-> "z = x.view"],
     [cell |-> 10, op |-> "a = torch.ones"],
     [cell |-> 11, op |-> "b = a.numpy()"],
     [cell |-> 12, op |-> "a.add_(1)"],
     [cell |-> 13, op |-> "a = np.ones"],
     [cell |-> 13, op |-> "b = torch.from_numpy(a)"],
     [cell |-> 13, op |-> "np.add(out=a)"],
     [cell |-> 16, op |-> "x = torch.rand"],
     [cell |-> 16, op |-> "y = torch.rand"],
     [cell |-> 16, op |-> "if cuda"] >>

\* a fresh kernel before the first cell
InitTensorNotebook ==
  /\ pc = 1
  /\ calls = <<>>
  /\ last = "init"
  /\ err = None
  /\ stdout = <<>>
  /\ SessionIdle
  /\ env = [n \in Names |-> None]
  /\ heap = [i \in {} |-> <<>>]
  /\ cuda \in BOOLEAN
  /\ LoadingIdle
  /\ KernelIdle

TAt(op) == pc \in 1..Len(TensorNotebook) /\ TensorNotebook[pc].op = op

TAdvance ==
  /\ pc' = pc + 1
  /\ calls' = Append(calls, last')
  /\ UNCHANGED <<session, cuda, loading, kernel>>

TUninitX == TAt("x = torch.Tensor") /\ TensorUninit("x") /\ TAdvance
TRandX == TAt("x = torch.rand") /\ Rand("x", <<5, 3>>) /\ TAdvance
TSize == TAt("x.size()") /\ Size /\ TAdvance
TRandY == TAt("y = torch.rand") /\ Rand("y", <<5, 3>>) /\ TAdvance
TPlus == TAt("x + y") /\ AddExpr("x + y") /\ TAdvance
TTorchAdd == TAt("torch.add(x, y)") /\ AddExpr("torch.add(x, y)") /\ TAdvance
TUninitResult == TAt("result = torch.Tensor") /\ TensorUninit("result") /\ TAdvance
TAddOut == TAt("torch.add(out=result)") /\ AddOut /\ TAdvance
TAddInPlace == TAt("y.add_(x)") /\ AddInPlace /\ TAdvance
TIndex == TAt("x[:, 1]") /\ Index /\ TAdvance
TRandnX == TAt("x = torch.randn") /\ Rand("x", <<4, 4>>) /\ TAdvance
TViewY == TAt("y = x.view") /\ View("y", 16) /\ TAdvance
TViewZ == TAt("z = x.view") /\ View("z", 8) /\ TAdvance
TOnes == TAt("a = torch.ones") /\ Ones /\ TAdvance
TNumpy == TAt("b = a.numpy()") /\ Numpy /\ TAdvance
TTensorAddOne == TAt("a.add_(1)") /\ TensorAddOne("a") /\ TAdvance
TNpOnes == TAt("a = np.ones") /\ NpOnes /\ TAdvance
TFromNumpy == TAt("b = torch.from_numpy(a)") /\ FromNumpy /\ TAdvance
TArrayAddOne == TAt("np.add(out=a)") /\ ArrayAddOne("a") /\ TAdvance
TCudaBlock == TAt("if cuda") /\ CudaBlock /\ TAdvance

NextTensor ==
  \/ TUninitX
  \/ TRandX
  \/ TSize
  \/ TRandY
  \/ TPlus
  \/ TTorchAdd
  \/ TUninitResult
  \/ TAddOut
  \/ TAddInPlace
  \/ TIndex
  \/ TRandnX
  \/ TViewY
  \/ TViewZ
  \/ TOnes
  \/ TNumpy
  \/ TTensorAddOne
  \/ TNpOnes
  \/ TFromNumpy
  \/ TArrayAddOne
  \/ TCudaBlock

SpecTensor == InitTensorNotebook /\ [][NextTensor]_vars
TensorDone == pc = Len(TensorNotebook) + 1

\* ----------------------------------- the CIFAR10 walkthrough's operations
batch_size == 4
num_workers == 2
classes ==
  <<"plane", "car", "bird", "cat", "deer", "dog", "frog", "horse", "ship", "truck">>

\* the downloaded data: image i stands for one pixel in 0..255, and a label
CIFAR10 == [i \in 1..TrainSize |-> [pixel |-> (i * 37) % 256, label |-> i % 10]]

\* transforms.ToTensor: 0..255 to [0, 1]; values are kept in units of 1/255
ToTensor(p) == p
\* transforms.Normalize(0.5, 0.5): (t - 0.5) / 0.5, in units of 1/255
Normalize(t) == 2 * t - 255
transform(p) == Normalize(ToTensor(p))
\* trainset[i]
getitem(i) == [image |-> transform(CIFAR10[i].pixel), label |-> CIFAR10[i].label]
\* img / 2 + 0.5 in imshow, in units of 1/255
Unnormalise(t) == (t + 255) \div 2

\* shuffle=True: the orders of the samples an epoch may draw
Shuffled(n) == { [i \in 1..n |-> ((i + k - 1) % n) + 1] : k \in 0..(n - 1) }

\* the batch sampler: consecutive groups of batch_size indices, the last shorter
RECURSIVE Batches(_)
Batches(order) ==
  IF Len(order) <= batch_size THEN IF order = <<>> THEN <<>> ELSE <<order>>
  ELSE <<SubSeq(order, 1, batch_size)>>
         \o Batches(SubSeq(order, batch_size + 1, Len(order)))

\* default collate: the samples of a batch side by side
collate(indices) ==
  [images |-> [j \in 1..Len(indices) |-> getitem(indices[j]).image],
   labels |-> [j \in 1..Len(indices) |-> getitem(indices[j]).label]]

Min(a, b) == IF a < b THEN a ELSE b

CBind(n, v) == cifar' = [cifar EXCEPT ![n] = Some(v)]
Quiet == stdout' = <<>> /\ err' = None

\* import torch, torchvision, transforms; import plt, np; def imshow
Import ==
  /\ last' = "import"
  /\ Quiet
  /\ UNCHANGED loading

\* transform = transforms.Compose([ToTensor(), Normalize(...)])
MakeTransform ==
  /\ CBind("transform", "Compose")
  /\ last' = "transform"
  /\ Quiet
  /\ UNCHANGED <<workers, index_queue, data_queue>>

\* trainset / testset = torchvision.datasets.CIFAR10(train=..., transform=transform)
MakeDataset(n, train) ==
  /\ cifar["transform"] # None
  /\ CBind(n, [train |-> train, transform |-> Val(cifar["transform"])])
  /\ last' = n
  /\ Quiet
  /\ UNCHANGED <<workers, index_queue, data_queue>>

\* trainloader / testloader = DataLoader(set, batch_size=4, shuffle=..., num_workers=2):
\* the loader is only described, nothing is started
MakeLoader(n, set, shuffle) ==
  /\ cifar[set] # None
  /\ CBind(n, [dataset |-> set, batch_size |-> batch_size, shuffle |-> shuffle,
               num_workers |-> num_workers])
  /\ last' = n
  /\ Quiet
  /\ UNCHANGED <<workers, index_queue, data_queue>>

\* classes = (...)
MakeClasses ==
  /\ CBind("classes", classes)
  /\ last' = "classes"
  /\ Quiet
  /\ UNCHANGED <<workers, index_queue, data_queue>>

\* dataiter = iter(trainloader): num_workers processes are started and the
\* first 2 * num_workers batches of indices are handed out
Iter ==
  /\ cifar["trainloader"] # None
  /\ \E order \in Shuffled(TrainSize) :
       LET all == Batches(order)
           sent == Min(2 * Val(cifar["trainloader"]).num_workers, Len(all))
       IN  /\ CBind("dataiter", [batch_sampler |-> all, send_idx |-> sent,
                                 rcvd_idx |-> 0, reorder_dict |-> {},
                                 batches_outstanding |-> sent])
           /\ index_queue' = [k \in 1..sent |-> [idx |-> k - 1, indices |-> all[k]]]
  /\ workers' = [w \in 1..Val(cifar["trainloader"]).num_workers |-> None]
  /\ data_queue' = <<>>
  /\ last' = "iter(trainloader)"
  /\ Quiet

\* a loader process takes the next batch of indices from the index queue
WorkerGet(w) ==
  /\ workers[w] = None
  /\ index_queue # <<>>
  /\ workers' = [workers EXCEPT ![w] = Some(Head(index_queue))]
  /\ index_queue' = Tail(index_queue)
  /\ UNCHANGED <<cifar, data_queue>>

\* a loader process reads and transforms its samples and puts the batch on
\* the data queue
WorkerPut(w) ==
  /\ workers[w] # None
  /\ data_queue' = Append(data_queue, [idx |-> Val(workers[w]).idx,
                                       batch |-> collate(Val(workers[w]).indices)])
  /\ workers' = [workers EXCEPT ![w] = None]
  /\ UNCHANGED <<cifar, index_queue>>

\* next() hands out any batch, whatever its number
InOrderAny(it, item) == TRUE

\* next() hands out a batch only if it is the one due
InOrder(it, item) == item.idx = it.rcvd_idx

\* the indices the iterator sends after handing out a batch, if any are left
PutIndices(it) ==
  IF it.send_idx < Len(it.batch_sampler)
  THEN << [idx |-> it.send_idx, indices |-> it.batch_sampler[it.send_idx + 1]] >>
  ELSE <<>>

\* dataiter.next() waiting: a batch that is not due is set aside
NextStash ==
  /\ cifar["dataiter"] # None
  /\ data_queue # <<>>
  /\ LET it == Val(cifar["dataiter"])
         item == Head(data_queue)
     IN  /\ ~InOrder(it, item)
         /\ CBind("dataiter",
                  [it EXCEPT !.reorder_dict = @ \cup {item},
                             !.batches_outstanding = @ - 1])
  /\ data_queue' = Tail(data_queue)
  /\ UNCHANGED <<workers, index_queue>>

\* images, labels = dataiter.next(): the batch that is due has arrived
NextReturn ==
  /\ cifar["dataiter"] # None
  /\ data_queue # <<>>
  /\ LET it == Val(cifar["dataiter"])
         item == Head(data_queue)
         more == PutIndices(it)
     IN  /\ InOrder(it, item)
         /\ cifar' = [cifar EXCEPT
              !["dataiter"] = Some([it EXCEPT !.rcvd_idx = @ + 1,
                                              !.send_idx = @ + Len(more),
                                              !.batches_outstanding = @ - 1 + Len(more)]),
              !["images"] = Some(item.batch.images),
              !["labels"] = Some(item.batch.labels)]
         /\ index_queue' = index_queue \o more
  /\ data_queue' = Tail(data_queue)
  /\ last' = "dataiter.next()"
  /\ Quiet
  /\ UNCHANGED workers

\* imshow(torchvision.utils.make_grid(images))
Imshow ==
  /\ cifar["images"] # None
  /\ stdout' = << [j \in DOMAIN Val(cifar["images"]) |->
                     Unnormalise(Val(cifar["images"])[j])] >>
  /\ err' = None
  /\ last' = "imshow"
  /\ UNCHANGED loading

\* print(' '.join('%5s' % classes[labels[j]] for j in range(4)))
PrintLabels ==
  /\ cifar["labels"] # None /\ cifar["classes"] # None
  /\ IF Len(Val(cifar["labels"])) >= 4
     THEN /\ stdout' = [j \in 1..4 |->
                          Val(cifar["classes"])[Val(cifar["labels"])[j] + 1]]
          /\ err' = None
     ELSE /\ stdout' = <<>>
          /\ err' = Some("IndexError")
  /\ last' = "print labels"
  /\ UNCHANGED loading

\* ------------------------------ the CIFAR10 walkthrough, in notebook order
\* the statements of the CIFAR10 notebook's cells, by execution count, and
\* the step of the tutorial's plan each belongs to (0: none)
CifarNotebook ==
  << [cell |-> 1, op |-> "import", step |-> 0],
     [cell |-> 2, op |-> "transform", step |-> 1],
     [cell |-> 2, op |-> "trainset", step |-> 1],
     [cell |-> 2, op |-> "trainloader", step |-> 1],
     [cell |-> 2, op |-> "testset", step |-> 1],
     [cell |-> 2, op |-> "testloader", step |-> 1],
     [cell |-> 2, op |-> "classes", step |-> 1],
     [cell |-> 4, op |-> "import", step |-> 0],
     [cell |-> 4, op |-> "iter(trainloader)", step |-> 0],
     [cell |-> 4, op |-> "dataiter.next()", step |-> 0],
     [cell |-> 4, op |-> "imshow", step |-> 0],
     [cell |-> 4, op |-> "print labels", step |-> 0] >>

\* a fresh kernel before the first cell
InitCifar ==
  /\ pc = 1
  /\ calls = <<>>
  /\ last = "init"
  /\ err = None
  /\ stdout = <<>>
  /\ SessionIdle
  /\ TensorIdle
  /\ LoadingIdle
  /\ KernelIdle

CAt(op) == pc \in 1..Len(CifarNotebook) /\ CifarNotebook[pc].op = op

\* the kernel runs the statement and goes on to the next
CAdvance ==
  /\ pc' = pc + 1
  /\ calls' = Append(calls, last')
  /\ UNCHANGED <<session, tensors, kernel>>

\* a loader process takes a step; the kernel stays where it is
Background == UNCHANGED <<pc, calls, last, err, stdout, session, tensors, kernel>>

CImport == CAt("import") /\ Import /\ CAdvance
CTransform == CAt("transform") /\ MakeTransform /\ CAdvance
CTrainset == CAt("trainset") /\ MakeDataset("trainset", TRUE) /\ CAdvance
CTrainloader == CAt("trainloader") /\ MakeLoader("trainloader", "trainset", TRUE) /\ CAdvance
CTestset == CAt("testset") /\ MakeDataset("testset", FALSE) /\ CAdvance
CTestloader == CAt("testloader") /\ MakeLoader("testloader", "testset", FALSE) /\ CAdvance
CClasses == CAt("classes") /\ MakeClasses /\ CAdvance
CIter == CAt("iter(trainloader)") /\ Iter /\ CAdvance
CNextStash == CAt("dataiter.next()") /\ NextStash /\ Background
CNextReturn == CAt("dataiter.next()") /\ NextReturn /\ CAdvance
CImshow == CAt("imshow") /\ Imshow /\ CAdvance
CPrintLabels == CAt("print labels") /\ PrintLabels /\ CAdvance
CWorkerGet == \E w \in DOMAIN workers : WorkerGet(w) /\ Background
CWorkerPut == \E w \in DOMAIN workers : WorkerPut(w) /\ Background

NextCifar ==
  \/ CImport
  \/ CTransform
  \/ CTrainset
  \/ CTrainloader
  \/ CTestset
  \/ CTestloader
  \/ CClasses
  \/ CIter
  \/ CNextStash
  \/ CNextReturn
  \/ CImshow
  \/ CPrintLabels
  \/ CWorkerGet
  \/ CWorkerPut

SpecCifar == InitCifar /\ [][NextCifar]_vars
CifarDone == pc = Len(CifarNotebook) + 1

\* ------------------------------------- replay of the recorded executions
\* each notebook has a kernel of its own, which numbers its executions 1, 2, ...
\* the code cells of a notebook whose last run has the number c
Recorded(nb, c) == { k \in 1..Len(Cells[nb]) : Cells[nb][k].count = c }
\* the largest execution count a notebook records
LastCount(nb) ==
  LET counts == { Cells[nb][k].count : k \in 1..Len(Cells[nb]) }
  IN  CHOOSE c \in counts : \A d \in counts : d <= c

\* the kernel of nb makes the execution that the file records for a cell:
\* the names the cell reads are looked up, the names it binds are bound
RunCell(nb) ==
  LET c == kernel[nb].count + 1
  IN  /\ Recorded(nb, c) # {}
      /\ \E k \in Recorded(nb, c) :
           kernel' = [kernel EXCEPT ![nb] =
             [count |-> c,
              defined |-> @.defined \cup Cells[nb][k].defines,
              undefined |-> @.undefined \cup (Cells[nb][k].reads \ @.defined),
              ran |-> Append(@.ran, k)]]

\* an execution the file keeps no record of: a run of a cell that was run
\* again later or was deleted.  What it bound is not known and not relied on.
RunUnrecorded(nb) ==
  LET c == kernel[nb].count + 1
  IN  /\ Recorded(nb, c) = {}
      /\ c < LastCount(nb)
      /\ kernel' = [kernel EXCEPT ![nb].count = c]

InitReplay ==
  /\ pc = 0
  /\ calls = <<>>
  /\ last = "init"
  /\ err = None
  /\ stdout = <<>>
  /\ SessionIdle
  /\ TensorIdle
  /\ LoadingIdle
  /\ KernelIdle

Replaying == UNCHANGED <<pc, calls, last, err, stdout, session, tensors, loading>>
ReplayCell == \E nb \in DOMAIN Cells : RunCell(nb) /\ Replaying
ReplayUnrecorded == \E nb \in DOMAIN Cells : RunUnrecorded(nb) /\ Replaying

NextReplay ==
  \/ ReplayCell
  \/ ReplayUnrecorded

SpecReplay == InitReplay /\ [][NextReplay]_vars

\* ---------------------------------------------------------- properties
RECURSIVE Count(_, _)
Count(seq, x) ==
  IF seq = <<>> THEN 0
  ELSE (IF Head(seq) = x THEN 1 ELSE 0) + Count(Tail(seq), x)

RECURSIVE SumContrib(_, _)
SumContrib(c, i) == IF c = <<>> THEN 0 ELSE Head(c).g[i] + SumContrib(Tail(c), i)

Sq(x) == x * x

\* C1: a manual update that completes leaves every parameter at its value
\* before the loop minus 0.01 times its gradient (parameter data counts
\* hundredths, so 0.01 * g is g), each parameter once, and changes no
\* gradient buffer.
C1_ManualUpdateRule ==
  [][ (ApiManualUpdate /\ err' = None) =>
        /\ \A i \in ParamIdx : data'[i] = data[i] - Val(grad[i])
        /\ grad' = grad ]_vars

\* a manual update has completed on gradients that are not all zero
C1_Witness ==
  /\ last = "manual update"
  /\ err = None
  /\ \E i \in ParamIdx : grad[i] # None /\ Val(grad[i]) # 0

\* C2: a parameter's .grad is the sum of the gradients of the backward calls
\* made since the last zero_grad (since construction, before the first one);
\* with no gradient buffer yet there has been no such call.
C2_GradientsAccumulate ==
  \A i \in ParamIdx :
    IF grad[i] = None THEN contrib = <<>>
    ELSE Val(grad[i]) = SumContrib(contrib, i)

\* two backward calls without a zero_grad in between, both with a gradient
C2_Witness ==
  /\ Len(contrib) = 2
  /\ contrib[1].g[1] # 0 /\ contrib[2].g[1] # 0
  /\ grad[1] = Some(contrib[1].g[1] + contrib[2].g[1])

\* C3: right after net.zero_grad() every element of every parameter's .grad
\* is 0, a buffer that existed still exists, and the parameter values are
\* unchanged.
C3_ZeroGradZeroes ==
  [][ ApiNetZeroGrad =>
        /\ \A i \in ParamIdx :
             /\ \A k \in DOMAIN grad'[i] : grad'[i][k] = 0
             /\ DOMAIN grad'[i] = DOMAIN grad[i]
        /\ data' = data ]_vars

\* net.zero_grad() has run after a backward call left gradients in the buffers
C3_Witness ==
  /\ last = "net.zero_grad"
  /\ freed # {}
  /\ \A i \in ParamIdx : grad[i] = Some(0)

\* C4: when optimiser.step() runs, the four calls before it are, in this
\* order and in the same cell, zero_grad, forward, loss and backward; the
\* gradient buffers hold the gradient of that one backward call, made on the
\* loss of that forward pass; and the update subtracts 0.01 times it.
C4_TrainingStepOrder ==
  [][ NbOptimiserStep =>
        /\ Len(calls) >= 4
        /\ SubSeq(calls, Len(calls) - 3, Len(calls))
             = <<"optimiser.zero_grad", "forward", "loss", "backward">>
        /\ \A k \in (pc - 4)..pc : Notebook[k].cell = Notebook[pc].cell
        /\ Len(contrib) = 1
        /\ contrib[1].src = nfwd
        /\ Val(loss).fwd = nfwd
        /\ Val(output).fwd = nfwd
        /\ \A i \in ParamIdx :
             /\ grad[i] = Some(contrib[1].g[i])
             /\ data'[i] = data[i] - contrib[1].g[i] ]_vars

\* the training step has run to its update, with a gradient that is not zero
C4_Witness ==
  /\ Done
  /\ last = "step"
  /\ Len(contrib) = 1
  /\ contrib[1].g[1] # 0

\* C5: on an input of size N x 1 x 32 x 32 the forward pass returns an output
\* of size N x 10; the spatial size goes 32 -> 28 -> 14 -> 10 -> 5 and the
\* flattened features are 16 * 5 * 5 = 400, fc1's input width.
C5_ForwardShape ==
  (last = "forward" /\ Val(input).size[3] = 32 /\ Val(input).size[4] = 32) =>
     LET x == Ok(Val(input).size)
         n == Val(input).size[1]
     IN  /\ err = None
         /\ output # None
         /\ Val(output).size = <<n, 10>>
         /\ Conv2d(net[1], x).size = <<n, 6, 28, 28>>
         /\ Stage1(net, x).size = <<n, 6, 14, 14>>
         /\ Conv2d(net[2], Stage1(net, x)).size = <<n, 16, 10, 10>>
         /\ Stage2(net, x).size = <<n, 16, 5, 5>>
         /\ Flat(net, x).size = <<n, 400>>
         /\ net[3].in = 400

\* a batch of more than one 32 x 32 image has been passed forward
C5_Witness ==
  /\ last = "forward"
  /\ Val(input).size = <<MaxBatch, 1, 32, 32>>
  /\ output # None
  /\ Val(output).size = <<MaxBatch, 10>>

\* the spatial sizes on which Net.forward returns an output
Accepted(h, w) ==
  \/ h \in 32..35 /\ w \in 32..35
  \/ h \in 16..19 /\ w \in 112..115
  \/ h \in 112..115 /\ w \in 16..19

\* C6 as stated: the forward pass returns an output only when H = W = 32.
C6_Only32 ==
  last = "forward" =>
    ((err = None /\ output # None)
       <=> (Val(input).size[3] = 32 /\ Val(input).size[4] = 32))

\* C6, amended: the forward pass returns an output exactly when the two
\* pooled spatial sizes multiply to 25 (H and W both in 32..35, or one in
\* 16..19 and the other in 112..115); on any other size, 28 x 28 included,
\* it fails with a size mismatch and returns nothing.
C6_AcceptedSizes ==
  last = "forward" =>
    /\ (err = None /\ output # None)
         <=> Accepted(Val(input).size[3], Val(input).size[4])
    /\ ~Accepted(Val(input).size[3], Val(input).size[4])
         => (err = Some("size mismatch") /\ output = None)
    /\ ~Accepted(28, 28)

\* a 35 x 33 input has been passed forward and gave an output
C6_Witness ==
  /\ last = "forward"
  /\ Val(input).size[3] = 35 /\ Val(input).size[4] = 33
  /\ err = None
  /\ output # None

\* C7: once constructed the net holds exactly the five sub-layers conv1,
\* conv2, fc1, fc2, fc3, two convolutions and three fully-connected layers,
\* each layer's input width is the output width of the one before
\* (6 -> 6, 16 * 5 * 5 = 400 -> 400, 120 -> 120, 84 -> 84), and it stays so.
C7_LayersCompatible ==
  pc > 1 =>
    /\ Len(net) = 5
    /\ [k \in 1..5 |-> net[k].name] = <<"conv1", "conv2", "fc1", "fc2", "fc3">>
    /\ [k \in 1..5 |-> net[k].kind]
         = <<"Conv2d", "Conv2d", "Linear", "Linear", "Linear">>
    /\ net[1].out = 6 /\ net[2].in = 6
    /\ net[2].out = 16 /\ net[3].in = 16 * 5 * 5 /\ net[3].in = 400
    /\ net[3].out = 120 /\ net[4].in = 120
    /\ net[4].out = 84 /\ net[5].in = 84

\* the whole notebook has run on the constructed net
C7_Witness ==
  /\ Done
  /\ Len(net) = 5
  /\ Cardinality({net[k].name : k \in 1..Len(net)}) = 5

\* C8: params holds exactly 10 tensors, weight then bias for each of the
\* five layers in definition order, the first of size 6 x 1 x 5 x 5.
C8_TenParameters ==
  params # None =>
    LET ps == Val(params)
    IN  /\ Len(ps) = 10
        /\ [k \in 1..10 |-> <<ps[k].name, ps[k].part>>]
             = << <<"conv1", "weight">>, <<"conv1", "bias">>,
                  <<"conv2", "weight">>, <<"conv2", "bias">>,
                  <<"fc1", "weight">>, <<"fc1", "bias">>,
                  <<"fc2", "weight">>, <<"fc2", "bias">>,
                  <<"fc3", "weight">>, <<"fc3", "bias">> >>
        /\ ps[1].size = <<6, 1, 5, 5>>

\* the parameters have just been listed
C8_Witness ==
  /\ last = "parameters"
  /\ params # None
  /\ Len(Val(params)) = 10

\* C9 as stated: one forward pass, one loss computation, one backward pass
\* and one parameter update in the whole run.
C9_OnceEach ==
  Done =>
    /\ Count(calls, "forward") = 1
    /\ Count(calls, "loss") = 1
    /\ Count(calls, "backward") = 1
    /\ Count(calls, "manual update") + Count(calls, "step") = 1

\* C9, amended: the whole run makes three forward passes, two loss
\* computations, three backward passes and two parameter updates, one by the
\* manual loop and one by optimiser.step().
C9_CallCounts ==
  Done =>
    /\ Count(calls, "forward") = 3
    /\ Count(calls, "loss") = 2
    /\ Count(calls, "backward") = 3
    /\ Count(calls, "manual update") = 1
    /\ Count(calls, "step") = 1

\* the notebook has run to its end, every statement logged
C9_Witness ==
  /\ Done
  /\ Len(calls) = Len(Notebook)
  /\ err = None

\* C10: the loss of an output and the target 1..10 is one fraction, not
\* negative, with denominator 10 and the sum over i = 1..10 of
\* (output_i - i)^2 as numerator.
C10_MeanSquaredError ==
  (loss # None /\ output # None /\ Val(output).fwd = Val(loss).fwd) =>
    LET o == Val(output).val
        l == Val(loss)
    IN  /\ l.den = 10
        /\ l.num >= 0
        /\ l.num = Sq(o[1] - 1) + Sq(o[2] - 2) + Sq(o[3] - 3) + Sq(o[4] - 4)
                   + Sq(o[5] - 5) + Sq(o[6] - 6) + Sq(o[7] - 7) + Sq(o[8] - 8)
                   + Sq(o[9] - 9) + Sq(o[10] - 10)

\* a loss has been computed on an output that differs from the target
C10_Witness ==
  /\ last = "loss"
  /\ loss # None
  /\ Val(output).fwd = Val(loss).fwd
  /\ Val(loss).num > 0

\* C11 as stated: the walk from loss.grad_fn prints the MSELoss node, then
\* the last linear layer's node, then the node of the ReLU before that layer.
C11_ReverseWalk ==
  last = "print grad_fn" =>
    stdout = <<"MseLossBackward", "AddmmBackward", "ThresholdBackward">>


\* C12: once b has been converted from a (either way), a and b show the same
\* elements after every sequence of in-place additions through either of them.
C12_SharedMemory ==
  pc = 2 =>
    /\ env["a"] # None /\ env["b"] # None
    /\ Val(env["a"]).kind # Val(env["b"]).kind
    /\ Read(heap, Val(env["a"])) = Read(heap, Val(env["b"]))

\* a tensor and its array after additions through both
C12_Witness ==
  /\ pc = 2
  /\ Val(env["a"]).kind = "tensor"
  /\ last = "np.add(out=)" /\ err = None
  /\ Read(heap, Val(env["a"])) = [i \in 1..5 |-> 3]
  /\ Read(heap, Val(env["b"])) = [i \in 1..5 |-> 3]

\* the storages that exist before and after a step, and those it changed
Kept == DOMAIN heap \cap DOMAIN heap'
Changed == { i \in Kept : heap'[i] # heap[i] }

\* C13 as stated: no statement of the tensor walkthrough changes the elements
\* of a tensor or array that existed before it.
C13_Stateless == [][Changed = {}]_vars

\* the in-place statements of the walkthrough and the name each writes through
InPlace ==
  [s \in {"y.add_(x)", "torch.add(out=result)", "add_(1)", "np.add(out=)"} |->
     CASE s = "y.add_(x)" -> "y"
       [] s = "torch.add(out=result)" -> "result"
       [] OTHER -> "a"]

\* C13 amended: a statement changes an existing storage only if it is one of
\* the in-place statements, and then only the storage of the name it writes
\* through; y.add_(x), a.add_(1) and np.add(a, 1, out=a) do change it.
C13_InPlaceOnly ==
  [][ /\ Changed # {} =>
           /\ last' \in DOMAIN InPlace
           /\ Changed = {Val(env[InPlace[last']]).store}
      /\ last' \in DOMAIN InPlace \ {"torch.add(out=result)"} /\ err' = None =>
           Val(env[InPlace[last']]).store \in Changed
      /\ last' = "torch.add(out=result)" /\ err' = None =>
           Read(heap', Val(env'["result"])) = Sum(heap, Val(env["x"]), Val(env["y"]))
    ]_vars

\* y after y.add_(x) holds more than torch.rand gave it
C13_Witness ==
  /\ last = "y.add_(x)" /\ err = None
  /\ Read(heap, Val(env["y"]))[1] = 2 * (MaxRand + 1)
  /\ Read(heap, Val(env["x"]))[1] = MaxRand + 1

\* C16 as stated: without a GPU the CUDA cell fails and the failure reaches
\* the notebook output.
C16_FailurePropagates == last = "if cuda" /\ ~cuda => err # None

\* C16 amended: the CUDA cell checks torch.cuda.is_available() itself.  Without
\* a GPU it raises nothing, prints nothing and leaves x and y on the CPU; with
\* one it moves both and prints their sum.
C16_LocalCheck ==
  last = "if cuda" =>
    LET xr == Val(env["x"])
        yr == Val(env["y"])
    IN  /\ err = None
        /\ ~cuda => stdout = <<>> /\ xr.device = "cpu" /\ yr.device = "cpu"
        /\ cuda => /\ xr.device = "cuda" /\ yr.device = "cuda"
                   /\ stdout = <<Sum(heap, xr, yr)>>

\* the CUDA cell has run on a machine without a GPU
C16_Witness == last = "if cuda" /\ ~cuda /\ TensorDone

\* C14 as stated: no process besides the kernel ever runs or takes part in
\* producing a cell's data.
C14_SingleProcess == workers = <<>> /\ index_queue = <<>> /\ data_queue = <<>>

\* the batch the shuffled order puts first
FirstBatch == collate(Val(cifar["dataiter"]).batch_sampler[1])

\* C14 amended: the kernel runs alone until iter(trainloader); from then on
\* num_workers loader processes run beside the executing cells.  Every batch
\* on the data queue was put there by a loader process that held its indices,
\* and dataiter.next() binds images and labels to the first batch of the
\* shuffled order, taken from the data queue.
C14_WorkersLoad ==
  [][ /\ Len(workers') = IF cifar'["dataiter"] = None THEN 0 ELSE num_workers
      /\ Len(data_queue') > Len(data_queue) =>
           \E w \in DOMAIN workers :
             /\ workers[w] # None /\ workers'[w] = None
             /\ data_queue' = Append(data_queue,
                  [idx |-> Val(workers[w]).idx,
                   batch |-> collate(Val(workers[w]).indices)])
             /\ UNCHANGED <<pc, cifar>>
      /\ cifar'["images"] # cifar["images"] =>
           /\ data_queue # <<>> /\ data_queue' = Tail(data_queue)
           /\ Head(data_queue).batch = FirstBatch
           /\ cifar'["images"] = Some(FirstBatch.images)
           /\ cifar'["labels"] = Some(FirstBatch.labels)
    ]_vars

\* the kernel is showing the images while a loader process works on a later
\* batch, and a batch that arrived early was set aside
C14_Witness ==
  /\ CAt("imshow")
  /\ cifar["images"] # None
  /\ \E w \in DOMAIN workers : workers[w] # None
  /\ Val(cifar["dataiter"]).reorder_dict # {}

\* the steps of the tutorial's plan that the statements run so far belong to
StepsDone == { CifarNotebook[k].step : k \in 1..(pc - 1) } \ {0}

\* C17 as stated: when the CIFAR10 notebook has run, the five steps of its plan
\* have been carried out, each step's statements before those of the next.
C17_FiveSteps ==
  CifarDone =>
    /\ StepsDone = 1..5
    /\ \A j, k \in 1..Len(CifarNotebook) :
         j < k /\ CifarNotebook[j].step # 0 /\ CifarNotebook[k].step # 0 =>
           CifarNotebook[j].step <= CifarNotebook[k].step

\* C15: in each notebook the recorded execution counts increase strictly from
\* top to bottom, every recorded execution of a cell comes after those of all
\* executed cells above it, and every name a cell reads was bound by a cell
\* that ran before it.
C15_NotebookOrder ==
  \A nb \in DOMAIN Cells :
    LET cells == Cells[nb]
        ran == kernel[nb].ran
    IN  /\ \A j, k \in 1..Len(cells) :
             j < k /\ cells[j].count # 0 /\ cells[k].count # 0 =>
               cells[j].count < cells[k].count
        /\ \A i \in 1..Len(ran) : \A j \in 1..(ran[i] - 1) :
             cells[j].count # 0 => \E h \in 1..(i - 1) : ran[h] = j
        /\ kernel[nb].undefined = {}

\* all three kernels have made their last recorded execution
C15_Witness ==
  \A nb \in DOMAIN Cells :
    /\ kernel[nb].count = LastCount(nb)
    /\ Len(kernel[nb].ran) = Cardinality({k \in 1..Len(Cells[nb]) : Cells[nb][k].count # 0})
=============================================================================
